---- MODULE Spec2Model ----
(***************************************************************************)
(* Model of sqlx-core/src/logger.rs: the QueryLogger of one statement, the *)
(* dynamic-level dispatch macros it uses, and the two logging backends     *)
(* (`log` and `tracing`) it asks for enablement.                           *)
(*                                                                         *)
(* Text is a sequence of one-character strings.  Time is counted in whole  *)
(* ticks of the monotonic clock.  What the program hands to the tracing    *)
(* backend (spans entered and exited, events) is appended to `sink`.       *)
(***************************************************************************)
EXTENDS Integers, Sequences, FiniteSets, TLC

\* ------------------------------------------------------------------ bounds
\* the monotonic clock runs from 0 to MaxTime
MaxTime == 1
\* slow_statements_duration is drawn from 0..MaxDuration
MaxDuration == 1
\* each row counter is driven up to at most MaxRows
MaxRows == 1
\* explicit calls of finish() before the instance is dropped
MaxFinish == 1

\* ------------------------------------------------------------------ levels
\* log::LevelFilter
LevelFilter == {"Off", "Error", "Warn", "Info", "Debug", "Trace"}
\* log::Level
LogLevel == {"Error", "Warn", "Info", "Debug", "Trace"}
\* tracing::Level
TracingLevel == {"ERROR", "WARN", "INFO", "DEBUG", "TRACE"}
\* tracing::level_filters::LevelFilter, the most verbose level a subscriber takes
TracingFilter == {"OFF"} \cup TracingLevel

\* Option<T>
None == <<>>
Some(x) == <<x>>
Unwrap(o) == o[1]

\* log::LevelFilter::to_level
to_level(filter) ==
  CASE filter = "Off" -> None
    [] filter = "Error" -> Some("Error")
    [] filter = "Warn" -> Some("Warn")
    [] filter = "Info" -> Some("Info")
    [] filter = "Debug" -> Some("Debug")
    [] filter = "Trace" -> Some("Trace")

\* Option::zip
zip(a, b) == IF a # None /\ b # None THEN Some(<<Unwrap(a), Unwrap(b)>>) ELSE None

\* a match whose Warn and Info arms are exchanged
TracingLevelOfArmsExchanged(filter) ==
  CASE filter = "Error" -> Some("ERROR")
    [] filter = "Warn" -> Some("INFO")
    [] filter = "Info" -> Some("WARN")
    [] filter = "Debug" -> Some("DEBUG")
    [] filter = "Trace" -> Some("TRACE")
    [] filter = "Off" -> None

\* the match of private_level_filter_to_levels
TracingLevelOf(filter) ==
  CASE filter = "Error" -> Some("ERROR")
    [] filter = "Warn" -> Some("WARN")
    [] filter = "Info" -> Some("INFO")
    [] filter = "Debug" -> Some("DEBUG")
    [] filter = "Trace" -> Some("TRACE")
    [] filter = "Off" -> None

\* a filter-to-levels mapping whose Off arm yields a level
levels_off_as_error(filter) ==
  IF filter = "Off" THEN Some(<<"ERROR", "Error">>)
  ELSE zip(TracingLevelOf(filter), to_level(filter))

private_level_filter_to_levels(filter) == zip(TracingLevelOf(filter), to_level(filter))

\* ---------------------------------------------------------------- backends
\* verbosity rank: a backend whose maximum is m takes the levels of rank <= m
LogRank(l) ==
  CASE l = "Off" -> 0 [] l = "Error" -> 1 [] l = "Warn" -> 2
    [] l = "Info" -> 3 [] l = "Debug" -> 4 [] l = "Trace" -> 5

TracingRank(l) ==
  CASE l = "OFF" -> 0 [] l = "ERROR" -> 1 [] l = "WARN" -> 2
    [] l = "INFO" -> 3 [] l = "DEBUG" -> 4 [] l = "TRACE" -> 5

\* log::log_enabled!(target: "sqlx::query", level)
log_enabled(level, log_max) == LogRank(level) <= LogRank(log_max)

\* ::tracing::enabled!(target: "sqlx::query", <constant level>)
tracing_enabled(level, tracing_max) == TracingRank(level) <= TracingRank(tracing_max)

\* private_tracing_dynamic_enabled!
private_tracing_dynamic_enabled(level, tracing_max) ==
  CASE level = "ERROR" -> tracing_enabled("ERROR", tracing_max)
    [] level = "WARN" -> tracing_enabled("WARN", tracing_max)
    [] level = "INFO" -> tracing_enabled("INFO", tracing_max)
    [] level = "DEBUG" -> tracing_enabled("DEBUG", tracing_max)
    [] level = "TRACE" -> tracing_enabled("TRACE", tracing_max)

QUERY_SPAN == "db.query"

\* ::tracing::span!(target: "sqlx::query", <constant level>, name, message = sql)
tracing_span(level, name, message) ==
  [level |-> level, name |-> name, message |-> message]

\* private_tracing_dynamic_span!
private_tracing_dynamic_span(level, name, message) ==
  CASE level = "ERROR" -> tracing_span("ERROR", name, message)
    [] level = "WARN" -> tracing_span("WARN", name, message)
    [] level = "INFO" -> tracing_span("INFO", name, message)
    [] level = "DEBUG" -> tracing_span("DEBUG", name, message)
    [] level = "TRACE" -> tracing_span("TRACE", name, message)

\* ::tracing::event!(target: "sqlx::query", <constant level>, fields)
tracing_event(level, fields) ==
  [kind |-> "event", level |-> level, fields |-> fields]

\* private_tracing_dynamic_event!
private_tracing_dynamic_event(level, fields) ==
  CASE level = "ERROR" -> tracing_event("ERROR", fields)
    [] level = "WARN" -> tracing_event("WARN", fields)
    [] level = "INFO" -> tracing_event("INFO", fields)
    [] level = "DEBUG" -> tracing_event("DEBUG", fields)
    [] level = "TRACE" -> tracing_event("TRACE", fields)

\* -------------------------------------------------------------------- text
\* char::is_whitespace, on the characters the statements below are made of
Whitespace == {" ", "\t", "\n"}

\* the number of words parse_query_summary keeps
SummaryWords == 4

\* str::split_whitespace: the maximal runs of non-whitespace characters, in order
RECURSIVE split_ws(_, _, _)
split_ws(s, word, words) ==
  IF s = <<>>
    THEN (IF word = <<>> THEN words ELSE Append(words, word))
    ELSE IF Head(s) \in Whitespace
      THEN split_ws(Tail(s), <<>>, IF word = <<>> THEN words ELSE Append(words, word))
      ELSE split_ws(Tail(s), Append(word, Head(s)), words)

split_whitespace(s) == split_ws(s, <<>>, <<>>)

\* a take that keeps one element more
take_one_more(xs, n) == SubSeq(xs, 1, IF Len(xs) < n + 1 THEN Len(xs) ELSE n + 1)

\* Iterator::take
take(xs, n) == SubSeq(xs, 1, IF Len(xs) < n THEN Len(xs) ELSE n)

\* [&str]::join
RECURSIVE join(_, _)
join(xs, sep) ==
  IF xs = <<>> THEN <<>>
  ELSE IF Len(xs) = 1 THEN xs[1]
  ELSE xs[1] \o sep \o join(Tail(xs), sep)

parse_query_summary(sql_text) ==
  join(take(split_whitespace(sql_text), SummaryWords), <<" ">>)

\* U+2026, the one character pushed after the space in " ..."
Ellipsis == "..."

\* sqlformat::format(sql, QueryParams::None, FormatOptions::default()): the
\* formatter is another crate; its output is kept as the tagged input
sqlformat_format(sql_text) == <<"sqlformat::format(">> \o sql_text \o <<")">>

\* Duration::as_secs_f64 and the Debug rendering of a Duration
as_secs_f64(d) == <<"secs_f64", d>>
debug_duration(d) == <<"debug", d>>

\* ---------------------------------------------------------------- settings
Durations == 0..MaxDuration

\* crate::connection::LogSettings
LogSettings ==
  [statements_level : LevelFilter,
   slow_statements_level : LevelFilter,
   slow_statements_duration : Durations,
   statements_trace_level : LevelFilter]

\* the statements the driver passes: one word, four words with
\* irregular spacing, five words
Statements ==
  { <<"C">>,
    <<"a", " ", " ", "b", "\n", "c", " ", "d">>,
    <<"a", " ", "b", " ", "c", " ", "d", " ", "e">> }

\* ------------------------------------------------------------------- state
VARIABLES
  phase,             \* "none" before new, "running", "dropped" after the drop
  sql,               \* QueryLogger.sql
  rows_returned,     \* QueryLogger.rows_returned
  rows_affected,     \* QueryLogger.rows_affected
  start,             \* QueryLogger.start
  settings,          \* QueryLogger.settings
  span,              \* QueryLogger.span
  finish_calls,      \* explicit calls of finish() so far
  calls,             \* the row-count calls made so far: how many, and what they add up to
  now,               \* the monotonic clock, Instant::now()
  log_max,           \* the level the log backend takes for "sqlx::query"
  tracing_max,       \* the level the tracing backend takes for "sqlx::query"
  sink               \* what was handed to the tracing backend, in order

vars ==
  <<phase, sql, rows_returned, rows_affected, start, settings, span,
    finish_calls, calls, now, log_max, tracing_max, sink>>

logger == <<sql, rows_returned, rows_affected, start, settings, span>>
backends == <<log_max, tracing_max>>

\* --------------------------------------------------------------------- u64
\* A u64 is held as the integer with the same 64 bits read as two's
\* complement: 0, 1, 2, ... are themselves and u64::MAX, u64::MAX - 1, ...
\* are -1, -2, ...  On these the wrapping sum of two u64 is the integer sum.
U64Max == -1

\* the order of u64
U64Less(a, b) == IF (a >= 0) = (b >= 0) THEN a < b ELSE a >= 0

\* u64::wrapping_add, what += is where overflow is not checked
wrapping_add(a, b) == a + b

\* the sum of two u64 does not fit in a u64
u64_overflows(a, b) == (a < 0 /\ b < 0) \/ ((a < 0) # (b < 0) /\ a + b >= 0)

\* the counters the model follows: up to MaxRows, and down to MaxRows below 2^64
InCounterRange(v) == -MaxRows <= v /\ v <= MaxRows

\* the record of the row-count calls: the increment_rows_returned calls, the
\* sum of the arguments of increase_rows_affected as held above, and how many
\* of those arguments were held as negative, each standing for 2^64 more
NoCalls == [returned |-> 0, affected |-> 0, wide |-> 0]

\* ------------------------------------------------------------ construction
\* a construction that opens the span without asking whether it is enabled
new_span_unconditional(sql_text, st, tr_max) ==
  LET levels == private_level_filter_to_levels(st.statements_trace_level) IN
    IF levels # None
      THEN Some(private_tracing_dynamic_span(Unwrap(levels)[1], QUERY_SPAN, sql_text))
      ELSE None

\* the span of QueryLogger::new
new_span(sql_text, st, tr_max) ==
  LET levels == private_level_filter_to_levels(st.statements_trace_level) IN
    IF levels # None
      THEN IF private_tracing_dynamic_enabled(Unwrap(levels)[1], tr_max)
        THEN Some(private_tracing_dynamic_span(Unwrap(levels)[1], QUERY_SPAN, sql_text))
        ELSE None
      ELSE None

\* Span::entered
span_entered(sp) == IF sp = None THEN <<>> ELSE <<[kind |-> "span_enter", span |-> Unwrap(sp)]>>

\* drop(EnteredSpan)
span_dropped(sp) == IF sp = None THEN <<>> ELSE <<[kind |-> "span_exit", span |-> Unwrap(sp)]>>

\* a construction that also emits an event for the statement
new_sink_with_event(sp) ==
  span_entered(sp) \o <<tracing_event("TRACE", [summary |-> <<>>])>>

\* what QueryLogger::new hands to the tracing backend
new_sink(sp) == span_entered(sp)

New(sql_text, st) ==
  /\ phase = "none"
  /\ phase' = "running"
  /\ sql' = sql_text
  /\ rows_returned' = 0
  /\ rows_affected' = 0
  /\ start' = now
  /\ settings' = st
  /\ span' = new_span(sql_text, st, tracing_max)
  /\ sink' = sink \o new_sink(span')
  /\ calls' = NoCalls
  /\ UNCHANGED <<finish_calls, now, backends>>

\* ------------------------------------------------------------ row counters
\* an increment that bumps both counters
IncrementBothCounters ==
  /\ phase = "running"
  /\ rows_returned < MaxRows
  /\ rows_returned' = wrapping_add(rows_returned, 1)
  /\ rows_affected' = wrapping_add(rows_affected, 1)
  /\ calls' = [calls EXCEPT !.returned = @ + 1]
  /\ UNCHANGED <<phase, sql, start, settings, span, finish_calls, now, backends, sink>>

IncrementRowsReturned ==
  /\ phase = "running"
  /\ rows_returned < MaxRows
  /\ rows_returned' = wrapping_add(rows_returned, 1)
  /\ calls' = [calls EXCEPT !.returned = @ + 1]
  /\ UNCHANGED <<phase, sql, rows_affected, start, settings, span,
                 finish_calls, now, backends, sink>>

\* an increase that counts the call instead of adding its argument
IncreaseRowsAffectedByOne(n) ==
  /\ phase = "running"
  /\ InCounterRange(rows_affected + 1)
  /\ rows_affected' = wrapping_add(rows_affected, 1)
  /\ calls' = [calls EXCEPT !.affected = @ + n,
                            !.wide = @ + (IF n < 0 THEN 1 ELSE 0)]
  /\ UNCHANGED <<phase, sql, rows_returned, start, settings, span,
                 finish_calls, now, backends, sink>>

IncreaseRowsAffected(n) ==
  /\ phase = "running"
  /\ InCounterRange(rows_affected + n)
  /\ rows_affected' = wrapping_add(rows_affected, n)
  /\ calls' = [calls EXCEPT !.affected = @ + n,
                            !.wide = @ + (IF n < 0 THEN 1 ELSE 0)]
  /\ UNCHANGED <<phase, sql, rows_returned, start, settings, span,
                 finish_calls, now, backends, sink>>

\* ------------------------------------------------------------------ finish
\* Instant::elapsed
elapsed_since(start_time, now_time) == now_time - start_time

\* a classification that takes the boundary as not slow
was_slow_strict(elapsed, st) == elapsed > st.slow_statements_duration

was_slow(elapsed, st) == elapsed >= st.slow_statements_duration

\* a level that follows the span level for statements that are not slow
effective_level_by_trace(slow, st) ==
  IF slow THEN st.slow_statements_level ELSE st.statements_trace_level

\* lvl of finish
effective_level(slow, st) ==
  IF slow THEN st.slow_statements_level ELSE st.statements_level

\* an enablement check that needs both backends
log_is_enabled_both(tracing_level, log_level, lg_max, tr_max) ==
  /\ log_enabled(log_level, lg_max)
  /\ private_tracing_dynamic_enabled(tracing_level, tr_max)

\* log_is_enabled of finish
log_is_enabled(tracing_level, log_level, lg_max, tr_max) ==
  \/ log_enabled(log_level, lg_max)
  \/ private_tracing_dynamic_enabled(tracing_level, tr_max)

\* a summary that is marked as cut short whether or not it differs
event_summary_always_marked(sql_text) ==
  parse_query_summary(sql_text) \o <<" ", Ellipsis>>

\* summary of finish, as it is when the event is built
event_summary(sql_text) ==
  LET summary == parse_query_summary(sql_text) IN
    IF summary # sql_text THEN summary \o <<" ", Ellipsis>> ELSE summary

\* a statement field that is filled when the statement has more than four words
event_statement_by_words(sql_text) ==
  IF Len(split_whitespace(sql_text)) > SummaryWords
    THEN <<"\n", "\n">> \o sqlformat_format(sql_text) \o <<"\n">>
    ELSE <<>>

\* sql of finish, the db.statement field
event_statement(sql_text) ==
  IF parse_query_summary(sql_text) # sql_text
    THEN <<"\n", "\n">> \o sqlformat_format(sql_text) \o <<"\n">>
    ELSE <<>>

\* the message of the slow event, word by word
SlowMessage ==
  <<"slow", "statement:", "execution", "time", "exceeded", "alert", "threshold">>

\* the fields common to the two event! calls of finish
common_fields(sql_text, affected, returned, elapsed) ==
  [summary |-> event_summary(sql_text),
   db_statement |-> event_statement(sql_text),
   rows_affected |-> affected,
   rows_returned |-> returned,
   elapsed |-> debug_duration(elapsed),
   elapsed_secs |-> as_secs_f64(elapsed)]

\* the fields of the event! call in the was_slow branch
slow_fields(sql_text, affected, returned, elapsed, st) ==
  [summary |-> event_summary(sql_text),
   db_statement |-> event_statement(sql_text),
   rows_affected |-> affected,
   rows_returned |-> returned,
   elapsed |-> debug_duration(elapsed),
   elapsed_secs |-> as_secs_f64(elapsed),
   slow_threshold |-> debug_duration(st.slow_statements_duration),
   message |-> SlowMessage]

\* an emission that takes the slow branch whatever the classification
finish_event_always_slow(slow, tracing_level, sql_text, affected, returned, elapsed, st) ==
  private_tracing_dynamic_event(tracing_level,
    slow_fields(sql_text, affected, returned, elapsed, st))

\* the if was_slow { event! } else { event! } of finish
finish_event(slow, tracing_level, sql_text, affected, returned, elapsed, st) ==
  IF slow
    THEN private_tracing_dynamic_event(tracing_level,
           slow_fields(sql_text, affected, returned, elapsed, st))
    ELSE private_tracing_dynamic_event(tracing_level,
           common_fields(sql_text, affected, returned, elapsed))

\* the events finish emits: none or one
finish_events(sql_text, affected, returned, elapsed, st, lg_max, tr_max) ==
  LET slow == was_slow(elapsed, st)
      levels == private_level_filter_to_levels(effective_level(slow, st))
  IN IF levels # None
       THEN IF log_is_enabled(Unwrap(levels)[1], Unwrap(levels)[2], lg_max, tr_max)
         THEN <<finish_event(slow, Unwrap(levels)[1], sql_text, affected, returned,
                             elapsed, st)>>
         ELSE <<>>
       ELSE <<>>

\* a finish that looks at the span without taking it
span_kept(sp) == sp

\* self.span after self.span.take()
span_taken(sp) == None

\* a finish that emits the event and then drops the guard
finish_sink_event_first(closed, emitted) == emitted \o closed

\* the order of finish: the guard is dropped, then the event is emitted
finish_sink(closed, emitted) == closed \o emitted

\* the body of QueryLogger::finish
finish ==
  /\ span' = span_taken(span)
  /\ sink' = sink \o finish_sink(
                 span_dropped(span),
                 finish_events(sql, rows_affected, rows_returned,
                               elapsed_since(start, now), settings, log_max,
                               tracing_max))
  /\ UNCHANGED <<sql, rows_returned, rows_affected, start, settings, calls, now,
                 backends>>

\* an explicit call of finish by the owner
Finish ==
  /\ phase = "running"
  /\ finish_calls < MaxFinish
  /\ finish
  /\ finish_calls' = finish_calls + 1
  /\ UNCHANGED phase

\* a drop that releases the instance without finishing it
DropWithoutFinish ==
  /\ phase = "running"
  /\ phase' = "dropped"
  /\ UNCHANGED <<logger, finish_calls, calls, now, backends, sink>>

\* PinnedDrop::drop: the instance goes out of scope
Drop ==
  /\ phase = "running"
  /\ finish
  /\ phase' = "dropped"
  /\ UNCHANGED finish_calls

\* ------------------------------------------------------------- environment
\* the clock advances
Tick ==
  /\ phase # "dropped"
  /\ now < MaxTime
  /\ now' = now + 1
  /\ UNCHANGED <<phase, logger, finish_calls, calls, backends, sink>>

\* the log backend is reconfigured
SetLogMax(l) ==
  /\ phase = "running"
  /\ log_max' = l
  /\ UNCHANGED <<phase, logger, finish_calls, calls, now, tracing_max, sink>>

\* the tracing subscriber is reconfigured
SetTracingMax(l) ==
  /\ phase = "running"
  /\ tracing_max' = l
  /\ UNCHANGED <<phase, logger, finish_calls, calls, now, log_max, sink>>

\* ----------------------------------------------------------- specification
\* before QueryLogger::new the fields hold nothing yet
NoSettings ==
  [statements_level |-> "Off", slow_statements_level |-> "Off",
   slow_statements_duration |-> 0, statements_trace_level |-> "Off"]

Start(log_maxima, tracing_maxima) ==
  /\ phase = "none"
  /\ sql = <<>>
  /\ rows_returned = 0
  /\ rows_affected = 0
  /\ start = 0
  /\ settings = NoSettings
  /\ span = None
  /\ finish_calls = 0
  /\ calls = NoCalls
  /\ now = 0
  /\ log_max \in log_maxima
  /\ tracing_max \in tracing_maxima
  /\ sink = <<>>

\* The whole life of one instance: construction, row counts, explicit finish,
\* drop, with the clock and the backends changing underneath.  The levels of
\* the settings and of the backends are drawn from three and two values: an
\* inactive level, one a backend at its sampled maximum takes and one it
\* does not.  The threshold is zero or the largest one.
SampleFilters == {"Off", "Warn", "Debug"}
SampleSettings ==
  {st \in LogSettings :
     /\ st.statements_level \in SampleFilters
     /\ st.slow_statements_level \in SampleFilters
     /\ st.statements_trace_level \in SampleFilters
     /\ st.slow_statements_duration \in {0, MaxDuration}}
SampleLogMax == {"Off", "Info"}
SampleTracingMax == {"OFF", "INFO"}

Init == Start(SampleLogMax, SampleTracingMax)

Next ==
  \/ \E s \in Statements, st \in SampleSettings : New(s, st)
  \/ IncrementRowsReturned
  \/ \E n \in 0..MaxRows : IncreaseRowsAffected(n)
  \/ Finish
  \/ Drop
  \/ Tick
  \/ \E l \in SampleLogMax : SetLogMax(l)
  \/ \E l \in SampleTracingMax : SetTracingMax(l)

Spec == Init /\ [][Next]_vars

\* Every combination of the six filter values of the three level settings
\* with every maximum of the two backends, for an instance that is
\* constructed and dropped while the clock and the backends change.
LevelsStatement == <<"a", " ", "b", " ", "c", " ", "d", " ", "e">>

InitLevels == Start(LevelFilter, TracingFilter)

NextLevels ==
  \/ \E st \in LogSettings : New(LevelsStatement, st)
  \/ Drop
  \/ Tick
  \/ \E l \in LevelFilter : SetLogMax(l)
  \/ \E l \in TracingFilter : SetTracingMax(l)

SpecLevels == InitLevels /\ [][NextLevels]_vars

\* Every statement of up to MaxSqlLen characters over a letter, the space and
\* the line feed, for an instance that is constructed and dropped with its
\* event enabled.
MaxSqlLen == 9
TextChars == {"a", " ", "\n"}
SqlTexts == UNION {[1..k -> TextChars] : k \in 0..MaxSqlLen}
TextSettings ==
  [statements_level |-> "Info", slow_statements_level |-> "Warn",
   slow_statements_duration |-> MaxDuration, statements_trace_level |-> "Off"]

InitText == Start({"Info"}, {"OFF"})

NextText ==
  \/ phase = "none" /\ \E s \in SqlTexts : New(s, TextSettings)
  \/ Drop

SpecText == InitText /\ [][NextText]_vars

\* The row counters at both ends of u64: the arguments of
\* increase_rows_affected are the values within MaxRows of zero and within
\* MaxRows of 2^64, and at most MaxWide of the calls take one of the latter.
\* Where the sum does not fit in a u64, the += of a build without overflow
\* checks wraps (IncreaseRowsAffected) and the += of a build with them panics
\* (IncreaseRowsAffectedPanics).
MaxWide == 2

CounterArgs == (-MaxRows)..MaxRows

\* increase_rows_affected where overflow is checked and the sum does not fit:
\* the += panics before it stores anything, and the unwinding drops the
\* instance
IncreaseRowsAffectedPanics(n) ==
  /\ u64_overflows(rows_affected, n)
  /\ Drop
  /\ UNCHANGED calls

InitCounters == Start(SampleLogMax, {"OFF"})

NextCounters ==
  \/ phase = "none" /\ \E s \in Statements : New(s, TextSettings)
  \/ IncrementRowsReturned
  \/ \E n \in CounterArgs :
       (n < 0 => calls.wide < MaxWide) /\ IncreaseRowsAffected(n)
  \/ \E n \in CounterArgs : IncreaseRowsAffectedPanics(n)
  \/ Tick
  \/ Drop

SpecCounters == InitCounters /\ [][NextCounters]_vars

\* ------------------------------------------------------------------ claims
\* the events of a sink, in order
Events(s) == SelectSeq(s, LAMBDA e : e.kind = "event")

\* how many entries of a kind the first n entries of a sink hold
CountKind(s, n, kind) == Cardinality({i \in 1..n : s[i].kind = kind})

\* a region is open after the first n entries of a sink
RegionOpenAfter(s, n) == CountKind(s, n, "span_enter") > CountKind(s, n, "span_exit")

\* the elapsed time an event reports
ElapsedOf(e) == e.fields.elapsed[2]

\* the filter the settings select for an elapsed time
SelectedFilter(elapsed) ==
  IF elapsed >= settings.slow_statements_duration
    THEN settings.slow_statements_level
    ELSE settings.statements_level

\* the tracing level of the same name as a filter
SameName(filter) ==
  CASE filter = "Error" -> "ERROR" [] filter = "Warn" -> "WARN"
    [] filter = "Info" -> "INFO" [] filter = "Debug" -> "DEBUG"
    [] filter = "Trace" -> "TRACE" [] filter = "Off" -> "OFF"

\* a backend takes the level named by a filter
LogTakes(filter) == filter # "Off" /\ LogRank(filter) <= LogRank(log_max)
TracingTakes(filter) == filter # "Off" /\ LogRank(filter) <= TracingRank(tracing_max)

\* a step that runs finish: an explicit call, or the drop
FinishStep == finish_calls' # finish_calls \/ (phase = "running" /\ phase' = "dropped")

\* a step that runs QueryLogger::new
NewStep == phase = "none" /\ phase' = "running"

\* C1: an instance emits at most one terminal event, whatever the sequence of
\* row counts, explicit finish calls and the final drop.
C1_AtMostOneEvent == Len(Events(sink)) <= 1

\* C2: no event is emitted while the region of the instance is open: the
\* region is closed strictly before the event.
C2_RegionClosedBeforeEvent ==
  \A i \in 1..Len(sink) :
    sink[i].kind = "event" => ~RegionOpenAfter(sink, i - 1)

C2_Witness ==
  \E i \in 1..Len(sink) :
    /\ sink[i].kind = "event"
    /\ CountKind(sink, i - 1, "span_exit") = 1

\* C3: while finish has not run, nothing was emitted; all construction and
\* the row counts have done is possibly to open the region.
C3_NoEventBeforeFinish ==
  (phase \in {"none", "running"} /\ finish_calls = 0) =>
    /\ Events(sink) = <<>>
    /\ Len(sink) <= 1
    /\ \A i \in 1..Len(sink) : sink[i].kind = "span_enter"

C3_Witness ==
  /\ phase = "running"
  /\ finish_calls = 0
  /\ rows_returned > 0
  /\ rows_affected > 0
  /\ LogTakes(SelectedFilter(now - start))
  /\ Len(sink) = 1

\* C4: once finish has run, by an explicit call or by the drop, the instance
\* holds no region and every region it opened is closed.
C4_RegionReleased ==
  (finish_calls > 0 \/ phase = "dropped") =>
    /\ span = None
    /\ ~RegionOpenAfter(sink, Len(sink))

C4_Witness ==
  /\ phase = "dropped"
  /\ finish_calls = 0
  /\ CountKind(sink, Len(sink), "span_enter") = 1
  /\ CountKind(sink, Len(sink), "span_exit") = 1

\* C5: an instance dropped without an explicit finish is finalized by the
\* drop: its event is emitted exactly when the selected level is active and a
\* backend takes it.
C5_DropFinalizes ==
  (phase = "dropped" /\ finish_calls = 0) =>
    /\ span = None
    /\ Len(Events(sink)) =
         IF \/ LogTakes(SelectedFilter(now - start))
            \/ TracingTakes(SelectedFilter(now - start))
           THEN 1 ELSE 0

C5_Witness ==
  /\ phase = "dropped"
  /\ finish_calls = 0
  /\ Len(Events(sink)) = 1

\* C6: every event is emitted at the level of the same name as the filter the
\* settings select for its elapsed time: the slow level from the threshold
\* on, the statement level below it.
C6_EventAtSelectedLevel ==
  \A i \in 1..Len(sink) :
    sink[i].kind = "event" =>
      sink[i].level = SameName(SelectedFilter(ElapsedOf(sink[i])))

C6_Witness ==
  \E i \in 1..Len(sink) :
    /\ sink[i].kind = "event"
    /\ ElapsedOf(sink[i]) = settings.slow_statements_duration
    /\ settings.slow_statements_duration > 0
    /\ settings.slow_statements_level = "Debug"
    /\ settings.statements_level = "Warn"
    /\ sink[i].level = "DEBUG"

\* C7: an event carries the threshold field and a message with the word
\* "slow" exactly when its elapsed time is at or above the threshold.
HasSlowMarker(fields) ==
  /\ "message" \in DOMAIN fields
  /\ \E k \in 1..Len(fields.message) : fields.message[k] = "slow"

C7_SlowMarkerIffSlow ==
  \A i \in 1..Len(sink) :
    sink[i].kind = "event" =>
      /\ HasSlowMarker(sink[i].fields) <=>
           ElapsedOf(sink[i]) >= settings.slow_statements_duration
      /\ "slow_threshold" \in DOMAIN sink[i].fields <=>
           ElapsedOf(sink[i]) >= settings.slow_statements_duration

C7_Witness ==
  /\ Len(Events(sink)) = 2
  /\ ~HasSlowMarker(Events(sink)[1].fields)
  /\ HasSlowMarker(Events(sink)[2].fields)
  /\ Events(sink)[2].fields.slow_threshold = debug_duration(settings.slow_statements_duration)

\* C8: a finalization whose selected level is Off emits nothing: every event
\* was emitted for a selected level other than Off, and none is emitted with
\* both levels Off.
C8_OffEmitsNothing ==
  /\ \A i \in 1..Len(sink) :
       sink[i].kind = "event" => SelectedFilter(ElapsedOf(sink[i])) # "Off"
  /\ (settings.statements_level = "Off" /\ settings.slow_statements_level = "Off")
       => Events(sink) = <<>>

C8_Witness ==
  /\ phase = "dropped"
  /\ finish_calls > 0
  /\ settings.statements_level = "Off"
  /\ settings.slow_statements_level = "Off"
  /\ log_max # "Off"
  /\ tracing_max # "OFF"
  /\ rows_returned > 0
  /\ rows_affected > 0
  /\ now > start

\* C9: a finalization whose selected level is active emits its event exactly
\* when the log backend or the tracing backend takes that level then.
C9_EmitsIffEitherBackend ==
  [][(FinishStep /\ SelectedFilter(now - start) # "Off") =>
       (Len(Events(sink')) =
          Len(Events(sink)) +
            (IF \/ LogTakes(SelectedFilter(now - start))
                \/ TracingTakes(SelectedFilter(now - start))
               THEN 1 ELSE 0))]_vars

C9_Witness ==
  /\ phase = "dropped"
  /\ Len(Events(sink)) = 1
  /\ LogTakes(SelectedFilter(now - start))
  /\ ~TracingTakes(SelectedFilter(now - start))

\* C10, as claimed: construction opens the region exactly when the span level
\* is active and either backend takes it.
C10_OpensIffEitherBackend ==
  [][NewStep =>
       ((span' # None) <=>
          \/ LogTakes(settings'.statements_trace_level)
          \/ TracingTakes(settings'.statements_trace_level))]_vars

\* C10, amended: construction opens the region, at the level of the same
\* name, exactly when the span level is active and the tracing backend takes
\* it; the log backend is not asked.
C10_OpensIffTracingTakes ==
  [][NewStep =>
       /\ (span' # None) <=> TracingTakes(settings'.statements_trace_level)
       /\ span' # None =>
            /\ Unwrap(span').level = SameName(settings'.statements_trace_level)
            /\ sink' = sink \o <<[kind |-> "span_enter", span |-> Unwrap(span')]>>
       /\ span' = None => sink' = sink]_vars

C10_Witness ==
  /\ phase = "running"
  /\ span # None
  /\ Unwrap(span).level = "DEBUG"
  /\ log_max = "Off"
  /\ tracing_max = "DEBUG"

\* C11: with the span level Off the instance never holds a region, whatever
\* the tracing backend takes, and no finalization enters or exits one.
C11_OffSpanLevelNoRegion ==
  (phase # "none" /\ settings.statements_trace_level = "Off") =>
    /\ span = None
    /\ CountKind(sink, Len(sink), "span_enter") = 0
    /\ CountKind(sink, Len(sink), "span_exit") = 0

C11_Witness ==
  /\ phase = "dropped"
  /\ finish_calls > 0
  /\ settings.statements_trace_level = "Off"
  /\ tracing_max # "OFF"
  /\ Len(Events(sink)) = 2
  /\ Len(sink) = 2

\* a u64, as held, is the number the calls add up to: the same small part,
\* and 2^64 more exactly when it is held as negative
IsSumOfCalls(held, small, wide) ==
  held = small /\ (IF held < 0 THEN 1 ELSE 0) = wide

\* the fields of the last event of a sink
LastEventFields(s) == Events(s)[Len(Events(s))].fields

\* C12: both counters start from 0, and an emitted event carries as
\* rows_returned the number of increment_rows_returned calls and as
\* rows_affected the sum of the arguments of the increase_rows_affected calls
\* made from construction to that finalization.
C12_EventCarriesCallCounts ==
  [][/\ NewStep => (rows_returned' = 0 /\ rows_affected' = 0)
     /\ (FinishStep /\ Len(Events(sink')) = Len(Events(sink)) + 1) =>
          /\ LastEventFields(sink').rows_returned = calls.returned
          /\ IsSumOfCalls(LastEventFields(sink').rows_affected,
                          calls.affected, calls.wide)]_vars

C12_Witness ==
  /\ Len(Events(sink)) = 2
  /\ Events(sink)[1].fields.rows_returned = 0
  /\ Events(sink)[1].fields.rows_affected = 1
  /\ Events(sink)[2].fields.rows_returned = 1
  /\ Events(sink)[2].fields.rows_affected = 1

\* the log level of the same name as a filter
SameLogName(filter) ==
  CASE filter = "Error" -> "Error" [] filter = "Warn" -> "Warn"
    [] filter = "Info" -> "Info" [] filter = "Debug" -> "Debug"
    [] filter = "Trace" -> "Trace"

\* the filters the settings of the instance hold
SettingsFilters ==
  {settings.statements_level, settings.slow_statements_level,
   settings.statements_trace_level}

\* C13: private_level_filter_to_levels gives None exactly for Off, and for
\* each other filter the pair of the tracing level and the log level of the
\* same name; so it does for the filters of every instance.
C13_LevelsOfFilter ==
  /\ \A f \in LevelFilter :
       /\ (private_level_filter_to_levels(f) = None) <=> (f = "Off")
       /\ f # "Off" =>
            /\ Unwrap(private_level_filter_to_levels(f))[1] = SameName(f)
            /\ Unwrap(private_level_filter_to_levels(f))[2] = SameLogName(f)
            /\ Unwrap(private_level_filter_to_levels(f))[1] \in TracingLevel
            /\ Unwrap(private_level_filter_to_levels(f))[2] \in LogLevel
  /\ (phase # "none" /\ span # None) =>
       Unwrap(span).level =
         Unwrap(private_level_filter_to_levels(settings.statements_trace_level))[1]

C13_Witness ==
  /\ phase = "dropped"
  /\ SettingsFilters = {"Off", "Warn", "Info"}
  /\ settings.statements_trace_level = "Info"
  /\ settings.statements_level = "Off"
  /\ Len(sink) = 3
  /\ sink[1].span.level = "INFO"
  /\ sink[3].level = "WARN"
  /\ private_level_filter_to_levels(settings.statements_level) = None

\* the words of a text, by position: a word starts at a character that is not
\* whitespace and follows whitespace or nothing, and runs to the last
\* character before the next whitespace
IsSpace(s, i) == s[i] \in {" ", "\t", "\n"}
WordStarts(s) == {i \in 1..Len(s) : ~IsSpace(s, i) /\ (i = 1 \/ IsSpace(s, i - 1))}
WordCount(s) == Cardinality(WordStarts(s))
NthStart(s, n) ==
  CHOOSE i \in WordStarts(s) : Cardinality({j \in WordStarts(s) : j <= i}) = n
WordEnd(s, i) ==
  CHOOSE j \in i..Len(s) :
    /\ \A k \in i..j : ~IsSpace(s, k)
    /\ (j = Len(s) \/ IsSpace(s, j + 1))
NthWord(s, n) == SubSeq(s, NthStart(s, n), WordEnd(s, NthStart(s, n)))

\* a text whose only whitespace is one space between two words
SingleSpaced(s) ==
  \A i \in 1..Len(s) :
    IsSpace(s, i) => (s[i] = " " /\ i > 1 /\ i < Len(s) /\ ~IsSpace(s, i + 1))

\* C14: parse_query_summary gives the first min(4, k) words of its input, in
\* order, joined by single spaces: all of them for at most four words (the
\* input itself when it is single-spaced, nothing for no words), exactly four
\* for more.
C14_SummaryIsFirstFourWords ==
  phase # "none" =>
    LET r == parse_query_summary(sql)
        k == WordCount(sql)
        m == IF k < 4 THEN k ELSE 4
    IN /\ SingleSpaced(r)
       /\ WordCount(r) = m
       /\ \A n \in 1..m : NthWord(r, n) = NthWord(sql, n)
       /\ (k <= 4 /\ SingleSpaced(sql)) => r = sql
       /\ k = 0 => r = <<>>
       /\ k > 4 => WordCount(r) = 4

C14_Witness ==
  /\ phase = "dropped"
  /\ WordCount(sql) = 5
  /\ ~SingleSpaced(sql)
  /\ WordCount(parse_query_summary(sql)) = 4
  /\ Len(parse_query_summary(sql)) = 7

\* the summary of an event ends with the space and the ellipsis
IsMarked(summary) ==
  /\ Len(summary) >= 2
  /\ summary[Len(summary) - 1] = " "
  /\ summary[Len(summary)] = "..."

\* C15, as claimed: for a statement of at most four words the summary of the
\* emitted event is the statement itself and its statement field is empty.
C15_ShortStatementUnmarked ==
  \A i \in 1..Len(sink) :
    (sink[i].kind = "event" /\ WordCount(sql) <= 4) =>
      /\ sink[i].fields.summary = sql
      /\ sink[i].fields.db_statement = <<>>

\* C15, amended: for a statement of at most four words with one space
\* between two words and no other whitespace, the summary of the emitted
\* event is the statement itself, unmarked, and its statement field is empty.
C15_ShortSingleSpacedUnmarked ==
  \A i \in 1..Len(sink) :
    (sink[i].kind = "event" /\ WordCount(sql) <= 4 /\ SingleSpaced(sql)) =>
      /\ sink[i].fields.summary = sql
      /\ sink[i].fields.db_statement = <<>>

C15_Witness ==
  /\ Len(Events(sink)) = 1
  /\ WordCount(sql) = 4
  /\ SingleSpaced(sql)
  /\ Events(sink)[1].fields.summary = sql
  /\ Events(sink)[1].fields.db_statement = <<>>

\* C16: in every event the statement field is filled and the summary is the
\* marked parse_query_summary of the statement exactly when that summary
\* differs from the statement; otherwise the field is empty and the summary
\* is the statement.
C16_MarkedIffSummaryDiffers ==
  \A i \in 1..Len(sink) :
    sink[i].kind = "event" =>
      IF parse_query_summary(sql) # sql
        THEN /\ sink[i].fields.db_statement # <<>>
             /\ IsMarked(sink[i].fields.summary)
             /\ sink[i].fields.summary = parse_query_summary(sql) \o <<" ", "...">>
        ELSE /\ sink[i].fields.db_statement = <<>>
             /\ ~IsMarked(sink[i].fields.summary)
             /\ sink[i].fields.summary = sql

C16_Witness ==
  /\ Len(Events(sink)) = 1
  /\ WordCount(sql) = 2
  /\ parse_query_summary(sql) # sql
  /\ Events(sink)[1].fields.db_statement # <<>>
  /\ IsMarked(Events(sink)[1].fields.summary)

\* C17: the region of an instance is closed exactly once: the first
\* finalization takes the handle and closes the region, from then on the
\* instance holds no handle, and no later finish or drop closes it again.
C17_RegionClosedOnce ==
  /\ CountKind(sink, Len(sink), "span_enter") <= 1
  /\ CountKind(sink, Len(sink), "span_exit") <= CountKind(sink, Len(sink), "span_enter")
  /\ (finish_calls > 0 \/ phase = "dropped") =>
       /\ span = None
       /\ CountKind(sink, Len(sink), "span_exit") = CountKind(sink, Len(sink), "span_enter")
  /\ (phase = "running" /\ finish_calls = 0) =>
       /\ CountKind(sink, Len(sink), "span_exit") = 0
       /\ (span # None) <=> (CountKind(sink, Len(sink), "span_enter") = 1)

C17_Witness ==
  /\ phase = "dropped"
  /\ finish_calls = 1
  /\ span = None
  /\ CountKind(sink, Len(sink), "span_enter") = 1
  /\ CountKind(sink, Len(sink), "span_exit") = 1
  /\ Len(Events(sink)) = 2

\* a step of one of the two row-count operations
RowCountStep == calls' # calls /\ phase = "running" /\ phase' = "running"

\* C18: increment_rows_returned adds 1 to rows_returned and
\* increase_rows_affected(n) adds n to rows_affected; each leaves the other
\* counter, the statement, the start time, the settings and the span as they
\* were and emits nothing, so the counters depend only on which calls were
\* made, not on their order.
C18_RowCountFrame ==
  /\ [][RowCountStep =>
          /\ UNCHANGED <<sql, start, settings, span, sink>>
          /\ calls'.returned # calls.returned =>
               /\ rows_returned' = rows_returned + 1
               /\ rows_affected' = rows_affected
          /\ calls'.returned = calls.returned =>
               /\ rows_affected' = rows_affected + (calls'.affected - calls.affected)
               /\ rows_returned' = rows_returned]_vars
  /\ [](phase = "running" =>
          (rows_returned = calls.returned /\ rows_affected = calls.affected))

C18_Witness ==
  /\ phase = "running"
  /\ rows_returned = 1
  /\ rows_affected = 1
  /\ span # None
  /\ finish_calls = 0
  /\ Len(sink) = 1

\* C19: rows_returned and rows_affected never decrease in the order of u64:
\* no step of an instance, whatever the u64 arguments of
\* increase_rows_affected, leaves a counter smaller than it was.
C19_CountersNeverDecrease ==
  [][/\ ~U64Less(rows_affected', rows_affected)
     /\ ~U64Less(rows_returned', rows_returned)]_vars

\* the settings with another span level
WithTraceLevel(st, l) == [st EXCEPT !.statements_trace_level = l]

\* C20: the terminal event does not depend on the span level.  Construction
\* sets the statement, the counters and the start time and emits no event
\* whatever the span level, and the events a finalization emits are the ones
\* it would emit, from the same statement, counters, elapsed time and
\* backends, under any other span level: the same event, or none under each.
C20_EventIndependentOfSpanLevel ==
  [][/\ NewStep =>
          /\ start' = now
          /\ rows_returned' = 0
          /\ rows_affected' = 0
          /\ Events(sink') = Events(sink)
     /\ FinishStep =>
          \A l \in LevelFilter :
            Events(sink') = Events(sink) \o
              finish_events(sql, rows_affected, rows_returned,
                            elapsed_since(start, now),
                            WithTraceLevel(settings, l), log_max, tracing_max)]_vars

C20_Witness ==
  /\ phase = "dropped"
  /\ settings.statements_trace_level = "Trace"
  /\ settings.statements_level = "Info"
  /\ CountKind(sink, Len(sink), "span_enter") = 1
  /\ Len(Events(sink)) = 1
  /\ Events(sink)[1].level = "INFO"

====
